---------------------------- MODULE Spec2Model ----------------------------
(***************************************************************************)
(* A model of the MNB exchange-rate fetcher (src/mnb.py): the SOAP client  *)
(* wrapper MNBClient, the XMLParser, the OutputFormatter and main().       *)
(*                                                                         *)
(* Three specifications share the variables:                               *)
(*   SpecParser  one call of parse_current_rates / parse_historical_rates  *)
(*               on any input text;                                        *)
(*   SpecClient  a caller that constructs an MNBClient and calls its two   *)
(*               fetch methods;                                            *)
(*   Spec        one run of main().                                        *)
(*                                                                         *)
(* Python values: a str that the code treats as opaque is a TLA+ string;   *)
(* None is the string PyNone.  Where the code looks inside a str (int(),   *)
(* float(), str.replace) the str is spelled out as its characters by       *)
(* Chars.                                                                  *)
(***************************************************************************)
EXTENDS Integers, Sequences, FiniteSets, TLC

VARIABLES
    xml_in,     \* the argument of the parser call (SpecParser)
    call,       \* the parser call made and what it returned or raised
    client,     \* the caller's MNBClient object, PyNone while it has none
    zeepInits,  \* the zeep Client(...) constructions performed, in order
    requests,   \* the remote operations invoked on the service, in order
    calls,      \* the MNBClient methods called by the caller, with outcome
    pc,         \* main(): the statement main is at
    args,       \* main(): the argparse namespace
    steps,      \* main(): the steps main has started, in order
    xml_data,   \* main(): the fetched XML text
    parsed,     \* main(): the parser's return value
    output,     \* main(): the formatted text
    formatters, \* main(): the OutputFormatter methods main has called, in order
    dest,       \* main(): what the output destination has received
    stderr,     \* main(): the lines printed to standard error
    exitCode    \* main(): the value main returned

vars == <<xml_in, call, client, zeepInits, requests, calls, pc, args, steps,
          xml_data, parsed, output, formatters, dest, stderr, exitCode>>

parserVars == <<xml_in, call>>
clientVars == <<client, zeepInits, requests, calls>>
mainVars   == <<pc, args, steps, xml_data, parsed, output, formatters, dest, stderr,
                exitCode>>

--------------------------------------------------------------------------
(* Bounds of the model *)

\* the largest number of elements below the root of an input document
MaxElems == 4

\* the largest number of rates of an ExchangeRates handed to a formatter
MaxRates == 3

--------------------------------------------------------------------------
(* Python values *)

PyNone == "None"

\* not x, for x a str or None
Falsy(x) == x = PyNone \/ x = ""

\* The characters of the str literals the inputs are built from.
Chars(s) ==
    CASE s = ""        -> <<>>
      [] s = "1"       -> <<"1">>
      [] s = "100"     -> <<"1", "0", "0">>
      [] s = "0"       -> <<"0">>
      [] s = "-1"      -> <<"-", "1">>
      [] s = "x"       -> <<"x">>
      [] s = "337.68"  -> <<"3", "3", "7", ".", "6", "8">>
      [] s = "388,37"  -> <<"3", "8", "8", ",", "3", "7">>
      [] s = "2,19"    -> <<"2", ",", "1", "9">>
      [] s = "2.50"    -> <<"2", ".", "5", "0">>
      [] s = "-1.5"    -> <<"-", "1", ".", "5">>
      [] s = "1,234,5" -> <<"1", ",", "2", "3", "4", ",", "5">>
      [] s = "abc"     -> <<"a", "b", "c">>

Digits == {"0", "1", "2", "3", "4", "5", "6", "7", "8", "9"}

DigitVal(c) ==
    CASE c = "0" -> 0 [] c = "1" -> 1 [] c = "2" -> 2 [] c = "3" -> 3
      [] c = "4" -> 4 [] c = "5" -> 5 [] c = "6" -> 6 [] c = "7" -> 7
      [] c = "8" -> 8 [] c = "9" -> 9

\* str.replace(",", ".") on the characters
ReplaceComma(cs) == [i \in 1..Len(cs) |-> IF cs[i] = "," THEN "." ELSE cs[i]]

HasSign(cs) == Len(cs) > 0 /\ cs[1] \in {"+", "-"}
Unsigned(cs) == IF HasSign(cs) THEN Tail(cs) ELSE cs
AllDigits(cs) == \A i \in 1..Len(cs) : cs[i] \in Digits

RECURSIVE DigitsVal(_)
DigitsVal(cs) ==
    IF cs = <<>> THEN 0
    ELSE 10 * DigitsVal(SubSeq(cs, 1, Len(cs) - 1)) + DigitVal(cs[Len(cs)])

\* int(s): an optional sign, then one or more digits; anything else is a
\* ValueError.
IntLiteral(cs) == Unsigned(cs) # <<>> /\ AllDigits(Unsigned(cs))
IntValue(cs) ==
    IF HasSign(cs) /\ cs[1] = "-" THEN 0 - DigitsVal(Unsigned(cs))
    ELSE DigitsVal(Unsigned(cs))

\* float(s) on decimal notation: an optional sign, digits with at most one
\* point, at least one digit; anything else is a ValueError.
PointAt(cs) == {i \in 1..Len(cs) : cs[i] = "."}
WholePart(cs) ==
    IF PointAt(cs) = {} THEN cs
    ELSE SubSeq(cs, 1, (CHOOSE i \in PointAt(cs) : TRUE) - 1)
FracPart(cs) ==
    IF PointAt(cs) = {} THEN <<>>
    ELSE SubSeq(cs, (CHOOSE i \in PointAt(cs) : TRUE) + 1, Len(cs))
FloatLiteral(cs) ==
    LET u == Unsigned(cs) IN
    /\ Cardinality(PointAt(u)) <= 1
    /\ AllDigits(WholePart(u))
    /\ AllDigits(FracPart(u))
    /\ Len(WholePart(u)) + Len(FracPart(u)) >= 1

RECURSIVE StripZeros(_)
StripZeros(cs) ==
    IF cs # <<>> /\ cs[Len(cs)] = "0"
    THEN StripZeros(SubSeq(cs, 1, Len(cs) - 1))
    ELSE cs

\* The number float(s) returns, as sign, whole part and the digits after
\* the point without trailing zeros (exact for the short literals used).
FloatValue(cs) ==
    LET u == Unsigned(cs)
        w == DigitsVal(WholePart(u))
        f == StripZeros(FracPart(u))
    IN [neg   |-> HasSign(cs) /\ cs[1] = "-" /\ (w # 0 \/ f # <<>>),
        whole |-> w,
        frac  |-> f]

--------------------------------------------------------------------------
(* Exceptions *)

\* A library exception: its class and its text.
Exc(cls, msg) == [cls |-> cls, kind |-> cls, msg |-> msg]

\* raise MNBClientError(msg).  The code has the one class MNBClientError;
\* kind names the error kind of the taxonomy that the raising statement
\* stands for.
MNBClientError(kind, msg) == [cls |-> "MNBClientError", kind |-> kind, msg |-> msg]

\* isinstance(e, base) for the classes that occur
IsInstance(cls, base) ==
    \/ cls = base
    \/ base = "Exception"
    \/ base = "ValueError" /\ cls = "UnicodeEncodeError"

NoExc == Exc("", "")

\* A variable that holds an object: unbound is <<>>, bound to o is <<o>>.
Unbound == <<>>
Returned(v) == [ok |-> TRUE, value |-> v, exc |-> NoExc]
Raised(e)   == [ok |-> FALSE, value |-> PyNone, exc |-> e]

--------------------------------------------------------------------------
(* XML text and the element tree lxml builds from it *)

\* A child of a Day element.  curr and unit hold what .get("curr") and
\* .get("unit") return (PyNone: no such attribute); text holds .text
\* (PyNone: no text content).
Elem(tag, curr, unit, text) == [tag |-> tag, curr |-> curr, unit |-> unit, text |-> text]

RatePool ==
    { Elem("Rate", "USD",  "1",    "337.68"),
      Elem("Rate", "EUR",  PyNone, "388,37"),
      Elem("Rate", "JPY",  "x",    "2.50"),
      Elem("Rate", "GBP",  "1",    "abc"),
      Elem("Rate", "CHF",  "1",    PyNone),
      Elem("Rate", PyNone, "100",  "2,19"),
      Elem("Rate", "CZK",  "0",    "-1.5"),
      Elem("Info", PyNone, PyNone, PyNone) }

\* A child of the root.  date holds what .get("date") returns.
Node(tag, date, kids) == [tag |-> tag, date |-> date, kids |-> kids]

DateAttrs == {"2025-11-04", "2025-11-03", "", PyNone}

\* The outline of a document: for each child of the root in order, the
\* number of children of that Day element, or NotDay for an element that is
\* no Day.
NotDay == 0 - 1

KidsOf(k) == IF k = NotDay THEN 0 ELSE k

RECURSIVE OutlinesOfSize(_)
OutlinesOfSize(n) ==
    IF n = 0 THEN {<<>>}
    ELSE UNION {{<<k>> \o t : t \in OutlinesOfSize(n - 1 - KidsOf(k))} :
                k \in NotDay..(n - 1)}

Outlines == UNION {OutlinesOfSize(n) : n \in 0..MaxElems}

RECURSIVE KidsBefore(_, _)
KidsBefore(outline, i) ==
    IF i = 1 THEN 0 ELSE KidsBefore(outline, i - 1) + KidsOf(outline[i - 1])

KidsTotal(outline) == KidsBefore(outline, Len(outline) + 1)

\* The children of the root with that outline, the Day elements' date
\* attributes taken from dates and their children, in order, from kids.
BuildRoot(outline, dates, kids) ==
    [i \in 1..Len(outline) |->
        IF outline[i] = NotDay
        THEN Node("Meta", PyNone, <<>>)
        ELSE Node("Day", dates[i],
                  [j \in 1..outline[i] |-> kids[KidsBefore(outline, i) + j]])]

\* The str passed to a parser: a well-formed document (root holds the
\* children of its root element), text that is not well-formed XML, or
\* text that is not well-formed and has a lone surrogate in it, which
\* str.encode("utf-8") rejects.
XmlText(form, root) == [form |-> form, root |-> root]

NotXml == {XmlText("malformed", <<>>), XmlText("unencodable", <<>>)}

\* xml_data.encode("utf-8")
Encode(x) ==
    IF x.form = "unencodable"
    THEN Raised(Exc("UnicodeEncodeError", "'utf-8' codec can't encode character"))
    ELSE Returned(x)

\* etree.fromstring(bytes)
FromString(x) ==
    IF x.form = "xml" THEN Returned(x.root)
    ELSE Raised(Exc("XMLSyntaxError", "Start tag expected, '<' not found"))

\* element.find(tag) is not None
HasChild(kids, tag) == \E i \in 1..Len(kids) : kids[i].tag = tag

\* element.find(tag), where it is not None: the first child with that tag
Find(kids, tag) ==
    kids[CHOOSE i \in 1..Len(kids) :
           /\ kids[i].tag = tag
           /\ \A j \in 1..(i - 1) : kids[j].tag # tag]

\* element.findall(tag): the children with that tag, in document order
FindAll(kids, tag) == SelectSeq(kids, LAMBDA e : e.tag = tag)

--------------------------------------------------------------------------
(* The data model *)

ExchangeRate(currency, unit, rate, date) ==
    [currency |-> currency, unit |-> unit, rate |-> rate, date |-> date]

ExchangeRates(date, rates) == [date |-> date, rates |-> rates]

\* A dict, as its items in insertion order.
DictHas(d, k) == \E i \in 1..Len(d) : d[i].key = k

\* DictSet with a new key put first
DictSetFront(d, k, v) ==
    IF DictHas(d, k)
    THEN [i \in 1..Len(d) |-> IF d[i].key = k THEN [key |-> k, value |-> v] ELSE d[i]]
    ELSE <<[key |-> k, value |-> v]>> \o d

\* d[k] = v: a new key goes last, a key the dict has keeps its place and
\* takes the new value.
DictSet(d, k, v) ==
    IF DictHas(d, k)
    THEN [i \in 1..Len(d) |-> IF d[i].key = k THEN [key |-> k, value |-> v] ELSE d[i]]
    ELSE Append(d, [key |-> k, value |-> v])

--------------------------------------------------------------------------
(* XMLParser.parse_current_rates *)

\* The body of the loop over the Rate elements, for one element.
ConvertRate(e, date_str) ==
    LET unit_str == IF e.unit = PyNone THEN "1" ELSE e.unit
    IN  IF ~IntLiteral(Chars(unit_str))
        THEN Raised(Exc("ValueError", "invalid literal for int() with base 10"))
        ELSE IF e.text = PyNone
        THEN Raised(Exc("AttributeError", "'NoneType' object has no attribute 'replace'"))
        ELSE IF ~FloatLiteral(ReplaceComma(Chars(e.text)))
        THEN Raised(Exc("ValueError", "could not convert string to float"))
        ELSE Returned(ExchangeRate(e.curr,
                                   IntValue(Chars(unit_str)),
                                   FloatValue(ReplaceComma(Chars(e.text))),
                                   date_str))

\* ConvertRates with rates.insert(0, ...) for rates.append(...)
RECURSIVE ConvertRatesPrepend(_, _, _)
ConvertRatesPrepend(elems, date_str, rates) ==
    IF elems = <<>> THEN Returned(rates)
    ELSE LET r == ConvertRate(Head(elems), date_str)
         IN  IF r.ok
             THEN ConvertRatesPrepend(Tail(elems), date_str, <<r.value>> \o rates)
             ELSE r

\* The loop: the rates of the elements in order, or the first exception.
RECURSIVE ConvertRates(_, _, _)
ConvertRates(elems, date_str, rates) ==
    IF elems = <<>> THEN Returned(rates)
    ELSE LET r == ConvertRate(Head(elems), date_str)
         IN  IF r.ok
             THEN ConvertRates(Tail(elems), date_str, Append(rates, r.value))
             ELSE r

\* The try block: what it returns, or the exception that leaves it.
CurrentTry(x) ==
    IF ~Encode(x).ok THEN Encode(x)
    ELSE IF ~FromString(x).ok THEN FromString(x)
    ELSE LET root == FromString(x).value
         IN  IF ~HasChild(root, "Day")
             THEN Raised(MNBClientError("MissingDataError",
                                        "No exchange rate data found in response"))
             ELSE LET day_element == Find(root, "Day")
                      date_str == day_element.date
                  IN  IF Falsy(date_str)
                      THEN Raised(MNBClientError("MissingDataError",
                                                 "Date not found in response"))
                      ELSE LET rs == ConvertRates(FindAll(day_element.kids, "Rate"),
                                                  date_str, <<>>)
                           IN  IF rs.ok
                               THEN Returned(ExchangeRates(date_str, rs.value))
                               ELSE rs

\* The except clauses, tried in order, on an exception e leaving the try
\* block: each raises an MNBClientError.
CurrentExcept(e) ==
    IF IsInstance(e.cls, "XMLSyntaxError")
    THEN MNBClientError("InvalidXmlError", "Invalid XML response: " \o e.msg)
    ELSE IF IsInstance(e.cls, "ValueError") \/ IsInstance(e.cls, "AttributeError")
    THEN MNBClientError("DataParseError",
                        "Failed to parse exchange rate data: " \o e.msg)
    ELSE MNBClientError("UnexpectedParseError", "Failed to parse response: " \o e.msg)

parse_current_rates(x) ==
    IF CurrentTry(x).ok THEN CurrentTry(x)
    ELSE Raised(CurrentExcept(CurrentTry(x).exc))

--------------------------------------------------------------------------
(* XMLParser.parse_historical_rates *)

\* The loop over the Day elements.
RECURSIVE HistoricalLoop(_, _)
HistoricalLoop(days, rates) ==
    IF days = <<>> THEN rates
    ELSE LET day == Head(days)
             date_str == day.date
         IN  IF HasChild(day.kids, "Rate") /\ ~Falsy(date_str)
             THEN HistoricalLoop(Tail(days),
                                 DictSet(rates, date_str, Find(day.kids, "Rate").text))
             ELSE HistoricalLoop(Tail(days), rates)

HistoricalTry(x) ==
    IF ~Encode(x).ok THEN Encode(x)
    ELSE IF ~FromString(x).ok THEN FromString(x)
    ELSE Returned(HistoricalLoop(FindAll(FromString(x).value, "Day"), <<>>))

HistoricalExcept(e) ==
    IF IsInstance(e.cls, "XMLSyntaxError")
    THEN MNBClientError("InvalidXmlError", "Invalid XML response: " \o e.msg)
    ELSE MNBClientError("UnexpectedParseError", "Failed to parse response: " \o e.msg)

parse_historical_rates(x) ==
    IF HistoricalTry(x).ok THEN HistoricalTry(x)
    ELSE Raised(HistoricalExcept(HistoricalTry(x).exc))

--------------------------------------------------------------------------
(* SpecParser: one call of a parser on any input *)

NoCall == [fn |-> "none", result |-> Returned(PyNone)]

\* The variables of the other specifications, at rest.
ClientIdle ==
    /\ client = Unbound
    /\ zeepInits = <<>>
    /\ requests = <<>>
    /\ calls = <<>>

MainIdle ==
    /\ pc = "idle"
    /\ args = PyNone
    /\ steps = <<>>
    /\ xml_data = PyNone
    /\ parsed = PyNone
    /\ output = PyNone
    /\ formatters = <<>>
    /\ dest = [state |-> "untouched", text |-> ""]
    /\ stderr = <<>>
    /\ exitCode = PyNone

InitParser ==
    /\ \/ xml_in \in NotXml
       \/ \E outline \in Outlines :
            \E dates \in [1..Len(outline) -> DateAttrs],
               kids \in [1..KidsTotal(outline) -> RatePool] :
                /\ \A i \in 1..Len(outline) : outline[i] = NotDay => dates[i] = PyNone
                /\ xml_in = XmlText("xml", BuildRoot(outline, dates, kids))
    /\ call = NoCall
    /\ ClientIdle
    /\ MainIdle

CallParseCurrent ==
    /\ call.fn = "none"
    /\ call' = [fn |-> "parse_current_rates", result |-> parse_current_rates(xml_in)]
    /\ UNCHANGED <<xml_in, clientVars, mainVars>>

CallParseHistorical ==
    /\ call.fn = "none"
    /\ call' = [fn |-> "parse_historical_rates", result |-> parse_historical_rates(xml_in)]
    /\ UNCHANGED <<xml_in, clientVars, mainVars>>

NextParser == CallParseCurrent \/ CallParseHistorical

SpecParser == InitParser /\ [][NextParser]_vars

--------------------------------------------------------------------------
(* MNBClient *)

DefaultWsdl == "http://www.mnb.hu/arfolyamok.asmx?wsdl"

\* What zeep's Client(wsdl) can do: return a client, or raise.
ZeepInitOutcomes ==
    { Returned("zeep.Client"),
      Raised(Exc("TransportError", "Server returned HTTP status 503")),
      Raised(Exc("ConnectionError", "Failed to establish a new connection")) }

\* Texts the service answers with: the rates of a day, a range of days
\* with one day without a rate, an answer without a Day, a Day with a rate
\* that is no number, and text that is no XML.
ServiceTexts ==
    { XmlText("xml", <<Node("Day", "2025-11-04",
                            <<Elem("Rate", "USD", "1", "337.68"),
                              Elem("Rate", "EUR", PyNone, "388,37")>>)>>),
      XmlText("xml", <<Node("Day", "2025-11-04", <<Elem("Rate", "USD", "1", "337.68")>>),
                       Node("Day", "2025-11-03", <<>>)>>),
      XmlText("xml", <<>>),
      XmlText("xml", <<Node("Day", "2025-11-04", <<Elem("Rate", "GBP", "1", "abc")>>)>>),
      XmlText("malformed", <<>>) }

\* What a remote operation can do: return the service's text, or raise.
ServiceReplies(texts) ==
    {Returned(t) : t \in texts} \cup
    { Raised(Exc("Fault", "Server was unable to process request")),
      Raised(Exc("TransportError", "Server returned HTTP status 503")),
      Raised(Exc("ConnectionError", "Connection aborted")) }

\* the except clauses of __init__
InitExcept(e) ==
    IF IsInstance(e.cls, "TransportError")
    THEN MNBClientError("ClientInitError", "Failed to connect to MNB service: " \o e.msg)
    ELSE MNBClientError("ClientInitError", "Failed to initialize MNB client: " \o e.msg)

\* InitExcept with a final "except Exception: pass": the failure is logged
\* and the half-made object is handed out
InitSwallows(wsdl_url, zeep) ==
    [made |-> <<IF Falsy(wsdl_url) THEN DefaultWsdl ELSE wsdl_url>>,
     result |-> Returned([wsdl_url |-> IF Falsy(wsdl_url) THEN DefaultWsdl ELSE wsdl_url,
                          timeout  |-> 30,
                          _client  |-> IF zeep.ok THEN zeep.value ELSE PyNone])]

\* MNBClient(wsdl_url), zeep answering with zeep: the zeep clients it
\* constructs (made) and the object it returns, or the exception it raises.
MNBClientInit(wsdl_url, zeep) ==
    LET url == IF Falsy(wsdl_url) THEN DefaultWsdl ELSE wsdl_url
    IN  [made   |-> <<url>>,
         result |-> IF zeep.ok
                    THEN Returned([wsdl_url |-> url, timeout |-> 30, _client |-> zeep.value])
                    ELSE Raised(InitExcept(zeep.exc))]

\* the except clauses of the two fetch methods
FetchExcept(e) ==
    IF IsInstance(e.cls, "Fault")
    THEN MNBClientError("ServiceError", "SOAP service error: " \o e.msg)
    ELSE IF IsInstance(e.cls, "TransportError")
    THEN MNBClientError("NetworkError", "Network error: " \o e.msg)
    ELSE MNBClientError("UnknownError", "Failed to fetch exchange rates: " \o e.msg)

Request(op, arguments) == [op |-> op, args |-> arguments]

\* get_current_exchange_rates with one more attempt after a failure
CurrentWithRetry(reply) ==
    [sent   |-> IF reply.ok
                THEN <<Request("GetCurrentExchangeRates", <<>>)>>
                ELSE <<Request("GetCurrentExchangeRates", <<>>),
                       Request("GetCurrentExchangeRates", <<>>)>>,
     result |-> IF reply.ok THEN Returned(reply.value)
                ELSE Raised(FetchExcept(reply.exc))]

\* client.get_current_exchange_rates(), the service answering with reply:
\* the remote operations it invokes (sent) and what it returns or raises.
get_current_exchange_rates(reply) ==
    [sent   |-> <<Request("GetCurrentExchangeRates", <<>>)>>,
     result |-> IF reply.ok THEN Returned(reply.value)
                ELSE Raised(FetchExcept(reply.exc))]

\* client.get_exchange_rates(start_date, end_date, currency_names)
get_exchange_rates(start_date, end_date, currency_names, reply) ==
    [sent   |-> <<Request("GetExchangeRates", <<start_date, end_date, currency_names>>)>>,
     result |-> IF reply.ok THEN Returned(reply.value)
                ELSE Raised(FetchExcept(reply.exc))]

--------------------------------------------------------------------------
(* SpecClient: a caller that constructs a client and fetches with it *)

\* the largest number of calls the caller makes
MaxCalls == 3

WsdlArgs == {PyNone, "http://custom.url/test.asmx?wsdl"}

\* argument triples of get_exchange_rates: as documented, and not
RangeArgs ==
    { <<"2025-11-01", "2025-11-04", "USD">>,
      <<"04/11/2025", "", "usd">> }

ParserIdle ==
    /\ xml_in = XmlText("xml", <<>>)
    /\ call = NoCall

InitClient ==
    /\ client = Unbound
    /\ zeepInits = <<>>
    /\ requests = <<>>
    /\ calls = <<>>
    /\ ParserIdle
    /\ MainIdle

\* client = MNBClient(wsdl_url=url)
NewClient ==
    /\ client = Unbound
    /\ Len(calls) < MaxCalls
    /\ \E url \in WsdlArgs, zeep \in ZeepInitOutcomes :
          LET r == MNBClientInit(url, zeep)
          IN  /\ zeepInits' = zeepInits \o r.made
              /\ client' = IF r.result.ok THEN <<r.result.value>> ELSE client
              /\ calls' = Append(calls, [fn |-> "MNBClient", args |-> <<url>>,
                                         answer |-> zeep, result |-> r.result])
    /\ UNCHANGED <<requests, parserVars, mainVars>>

\* client.get_current_exchange_rates()
GetCurrent ==
    /\ client # Unbound
    /\ Len(calls) < MaxCalls
    /\ \E reply \in ServiceReplies(ServiceTexts) :
          LET r == get_current_exchange_rates(reply)
          IN  /\ requests' = requests \o r.sent
              /\ calls' = Append(calls, [fn |-> "get_current_exchange_rates",
                                         args |-> <<>>,
                                         answer |-> reply, result |-> r.result])
    /\ UNCHANGED <<client, zeepInits, parserVars, mainVars>>

\* client.get_exchange_rates(start, end, currency)
GetRange ==
    /\ client # Unbound
    /\ Len(calls) < MaxCalls
    /\ \E a \in RangeArgs, reply \in ServiceReplies(ServiceTexts) :
          LET r == get_exchange_rates(a[1], a[2], a[3], reply)
          IN  /\ requests' = requests \o r.sent
              /\ calls' = Append(calls, [fn |-> "get_exchange_rates",
                                         args |-> a,
                                         answer |-> reply, result |-> r.result])
    /\ UNCHANGED <<client, zeepInits, parserVars, mainVars>>

NextClient == NewClient \/ GetCurrent \/ GetRange

SpecClient == InitClient /\ [][NextClient]_vars

--------------------------------------------------------------------------
(* OutputFormatter *)

\* sep.join(parts)
RECURSIVE Join(_, _)
Join(parts, sep) ==
    IF parts = <<>> THEN ""
    ELSE IF Len(parts) = 1 THEN parts[1]
    ELSE parts[1] \o sep \o Join(Tail(parts), sep)

\* str(n) for an int
IntStr(n) == IF n < 0 THEN "-" \o ToString(0 - n) ELSE ToString(n)

\* str(x) for a float
FloatStr(x) ==
    (IF x.neg THEN "-" ELSE "") \o ToString(x.whole) \o "." \o
    (IF x.frac = <<>> THEN "0" ELSE Join(x.frac, ""))

\* ExchangeRate.__str__
RateStr(r) == r.currency \o "\t" \o IntStr(r.unit) \o "\t" \o FloatStr(r.rate)

\* format_table with every line ended by a newline
format_table_terminated(exchange_rates) ==
    Join(<<"Date: " \o exchange_rates.date, "Currency\tUnit\tRate">> \o
         [i \in 1..Len(exchange_rates.rates) |-> RateStr(exchange_rates.rates[i])],
         "\n") \o "\n"

format_table(exchange_rates) ==
    Join(<<"Date: " \o exchange_rates.date, "Currency\tUnit\tRate">> \o
         [i \in 1..Len(exchange_rates.rates) |-> RateStr(exchange_rates.rates[i])],
         "\n")

format_csv(exchange_rates) ==
    Join(<<"Date,Currency,Unit,Rate">> \o
         [i \in 1..Len(exchange_rates.rates) |->
            exchange_rates.date \o "," \o exchange_rates.rates[i].currency \o "," \o
            IntStr(exchange_rates.rates[i].unit) \o "," \o
            FloatStr(exchange_rates.rates[i].rate)],
         "\n")

\* json.dumps of a str or None
JsonStr(x) == IF x = PyNone THEN "null" ELSE "\"" \o x \o "\""

\* json.dumps(..., indent=2) of a list of objects at depth one, each object
\* given as its "key": value lines
JsonList(objects) ==
    IF objects = <<>> THEN "[]"
    ELSE "[\n" \o
         Join([i \in 1..Len(objects) |->
                 "    {\n" \o
                 Join([j \in 1..Len(objects[i]) |-> "      " \o objects[i][j]], ",\n") \o
                 "\n    }"],
              ",\n") \o
         "\n  ]"

format_json(exchange_rates) ==
    "{\n  \"date\": " \o JsonStr(exchange_rates.date) \o ",\n  \"rates\": " \o
    JsonList([i \in 1..Len(exchange_rates.rates) |->
                <<"\"currency\": " \o JsonStr(exchange_rates.rates[i].currency),
                  "\"unit\": " \o IntStr(exchange_rates.rates[i].unit),
                  "\"rate\": " \o FloatStr(exchange_rates.rates[i].rate)>>]) \o
    "\n}"

format_historical_table(rates) ==
    Join([i \in 1..Len(rates) |-> rates[i].key \o ": " \o rates[i].value], "\n")

format_historical_json(rates, currency) ==
    "{\n  \"currency\": " \o JsonStr(currency) \o ",\n  \"rates\": " \o
    JsonList([i \in 1..Len(rates) |->
                <<"\"date\": " \o JsonStr(rates[i].key),
                  "\"rate\": " \o JsonStr(rates[i].value)>>]) \o
    "\n}"

--------------------------------------------------------------------------
(* SpecFormatter: a caller's one call of an OutputFormatter method on any
   ExchangeRates value *)

\* The ExchangeRate values the ExchangeRates are built from: the dataclass
\* validates nothing, so any str, int and float fill its fields.
FormatterRatePool(date) ==
    { ExchangeRate("USD",  1,     FloatValue(Chars("337.68")), date),
      ExchangeRate("EUR",  1,     FloatValue(ReplaceComma(Chars("388,37"))), date),
      ExchangeRate("JPY",  100,   FloatValue(Chars("1")), date),
      ExchangeRate("CZK",  0,     FloatValue(Chars("-1.5")), date),
      ExchangeRate("HUF",  0 - 1, FloatValue(Chars("2.50")), date),
      ExchangeRate(PyNone, 100,   FloatValue(ReplaceComma(Chars("2,19"))), date) }

FormatterDates == {"2025-11-04", "2025-11-03"}

InitFormatter ==
    /\ \E date \in FormatterDates, n \in 0..MaxRates :
         \E rates \in [1..n -> FormatterRatePool(date)] :
            parsed = ExchangeRates(date, rates)
    /\ pc = "idle"
    /\ args = PyNone
    /\ steps = <<>>
    /\ xml_data = PyNone
    /\ output = PyNone
    /\ formatters = <<>>
    /\ dest = [state |-> "untouched", text |-> ""]
    /\ stderr = <<>>
    /\ exitCode = PyNone
    /\ xml_in = XmlText("xml", <<>>)
    /\ call = NoCall
    /\ ClientIdle

\* text = OutputFormatter.format_table(exchange_rates)
CallFormatTable ==
    /\ call.fn = "none"
    /\ call' = [fn |-> "format_table", result |-> Returned(format_table(parsed))]
    /\ UNCHANGED <<xml_in, clientVars, mainVars>>

\* text = OutputFormatter.format_csv(exchange_rates)
CallFormatCsv ==
    /\ call.fn = "none"
    /\ call' = [fn |-> "format_csv", result |-> Returned(format_csv(parsed))]
    /\ UNCHANGED <<xml_in, clientVars, mainVars>>

\* text = OutputFormatter.format_json(exchange_rates)
CallFormatJson ==
    /\ call.fn = "none"
    /\ call' = [fn |-> "format_json", result |-> Returned(format_json(parsed))]
    /\ UNCHANGED <<xml_in, clientVars, mainVars>>

NextFormatter == CallFormatTable \/ CallFormatCsv \/ CallFormatJson

SpecFormatter == InitFormatter /\ [][NextFormatter]_vars

--------------------------------------------------------------------------
(* main() *)

\* date.today().strftime("%Y-%m-%d")
Today == "2026-11-02"

\* The namespaces parse_arguments returns.
ArgSpace ==
    [format     : {"table", "json", "csv"},
     output     : {PyNone, "rates.out"},
     historical : BOOLEAN,
     currency   : {"USD"},
     start      : {PyNone, "2025-11-01"},
     end        : {PyNone, "2025-11-04"},
     wsdl_url   : {PyNone}]

\* x or default
Or(x, default) == IF Falsy(x) THEN default ELSE x

\* The output destination: stdout, or the file named by --output.  state is
\* untouched (nothing written, a file not opened), truncated (the file
\* opened for writing and nothing written), partial (a write failed part
\* way) or complete (text was written).
Dest(state, text) == [state |-> state, text |-> text]

\* What open(...)/f.write(...) and print(...) can do: succeed, or raise an
\* OSError that leaves the destination in state left.
IoOutcome(ok, left, msg) ==
    [ok |-> ok, left |-> left, exc |-> IF ok THEN NoExc ELSE Exc("OSError", msg)]

IoOutcomes(out) ==
    IF out = PyNone
    THEN { IoOutcome(TRUE, "complete", ""),
           IoOutcome(FALSE, "untouched", "Broken pipe"),
           IoOutcome(FALSE, "partial", "Broken pipe") }
    ELSE { IoOutcome(TRUE, "complete", ""),
           IoOutcome(FALSE, "untouched", "Permission denied"),
           IoOutcome(FALSE, "truncated", "No space left on device"),
           IoOutcome(FALSE, "partial", "No space left on device") }

\* main's except clauses without the final "except Exception"
MainExceptClientOnly(e) ==
    IF IsInstance(e.cls, "MNBClientError")
    THEN [caught |-> TRUE, line |-> "Error: " \o e.msg]
    ELSE [caught |-> FALSE, line |-> "Traceback (most recent call last):"]

\* main's except clauses on an exception e leaving the try block: the line
\* printed to standard error; both clauses return 1.
MainExcept(e) ==
    IF IsInstance(e.cls, "MNBClientError")
    THEN [caught |-> TRUE, line |-> "Error: " \o e.msg]
    ELSE IF IsInstance(e.cls, "Exception")
    THEN [caught |-> TRUE, line |-> "Unexpected error: " \o e.msg]
    ELSE [caught |-> FALSE, line |-> "Traceback (most recent call last):"]

\* An exception e leaves the try block.
MainRaises(e) ==
    /\ stderr' = Append(stderr, MainExcept(e).line)
    /\ IF MainExcept(e).caught
       THEN pc' = "returned" /\ exitCode' = 1
       ELSE pc' = "uncaught" /\ exitCode' = exitCode

\* the write placed in a "finally:" clause
AtWriteOrAfterError ==
    \/ pc = "write"
    \/ pc = "returned" /\ \A i \in 1..Len(steps) : steps[i].step # "write"

\* main is at "# Write output"
AtWrite == pc = "write"

Started(step, ok) == steps' = Append(steps, [step |-> step, ok |-> ok])

Init ==
    /\ pc = "construct"
    /\ args \in ArgSpace
    /\ steps = <<>>
    /\ client = Unbound
    /\ zeepInits = <<>>
    /\ requests = <<>>
    /\ calls = <<>>
    /\ xml_data = PyNone
    /\ parsed = PyNone
    /\ output = PyNone
    /\ formatters = <<>>
    /\ dest = Dest("untouched", "")
    /\ stderr = <<>>
    /\ exitCode = PyNone
    /\ ParserIdle

\* client = MNBClient(wsdl_url=args.wsdl_url) ... output = ""
MainConstruct ==
    /\ pc = "construct"
    /\ \E zeep \in ZeepInitOutcomes :
          LET r == MNBClientInit(args.wsdl_url, zeep)
          IN  /\ zeepInits' = zeepInits \o r.made
              /\ Started("construct", r.result.ok)
              /\ IF r.result.ok
                 THEN /\ client' = <<r.result.value>>
                      /\ output' = ""
                      /\ pc' = "fetch"
                      /\ UNCHANGED <<stderr, exitCode>>
                 ELSE /\ MainRaises(r.result.exc)
                      /\ UNCHANGED <<client, output>>
    /\ UNCHANGED <<requests, calls, args, xml_data, parsed, formatters, dest, parserVars>>

\* xml_data = client.get_exchange_rates(...) or
\* client.get_current_exchange_rates()
MainFetch ==
    /\ pc = "fetch"
    /\ \E reply \in ServiceReplies(ServiceTexts) :
          LET r == IF args.historical
                   THEN get_exchange_rates(Or(args.start, "2024-01-01"),
                                           Or(args.end, Today), args.currency, reply)
                   ELSE get_current_exchange_rates(reply)
          IN  /\ requests' = requests \o r.sent
              /\ Started("fetch", r.result.ok)
              /\ IF r.result.ok
                 THEN /\ xml_data' = r.result.value
                      /\ pc' = "parse"
                      /\ UNCHANGED <<stderr, exitCode>>
                 ELSE /\ MainRaises(r.result.exc)
                      /\ UNCHANGED xml_data
    /\ UNCHANGED <<client, zeepInits, calls, args, parsed, output, formatters, dest,
                   parserVars>>

\* rates = parser.parse_historical_rates(xml_data) or
\* exchange_rates = parser.parse_current_rates(xml_data)
MainParse ==
    /\ pc = "parse"
    /\ LET r == IF args.historical THEN parse_historical_rates(xml_data)
                ELSE parse_current_rates(xml_data)
       IN  /\ Started("parse", r.ok)
           /\ IF r.ok
              THEN /\ parsed' = r.value
                   /\ pc' = "format"
                   /\ UNCHANGED <<stderr, exitCode>>
              ELSE /\ MainRaises(r.exc)
                   /\ UNCHANGED parsed
    /\ UNCHANGED <<clientVars, args, xml_data, output, formatters, dest, parserVars>>

\* Formatter with --format csv honoured in neither mode
FormatterWithoutCsv(a) ==
    IF a.historical
    THEN IF a.format = "json" THEN "format_historical_json" ELSE "format_historical_table"
    ELSE IF a.format = "json" THEN "format_json"
    ELSE "format_table"

\* The formatter main calls, by mode and --format.
Formatter(a) ==
    IF a.historical
    THEN IF a.format = "json" THEN "format_historical_json" ELSE "format_historical_table"
    ELSE IF a.format = "json" THEN "format_json"
    ELSE IF a.format = "csv" THEN "format_csv"
    ELSE "format_table"

Format(name, data, currency) ==
    CASE name = "format_historical_json"  -> format_historical_json(data, currency)
      [] name = "format_historical_table" -> format_historical_table(data)
      [] name = "format_json"             -> format_json(data)
      [] name = "format_csv"              -> format_csv(data)
      [] name = "format_table"            -> format_table(data)

\* output = formatter.format_...(...)
MainFormat ==
    /\ pc = "format"
    /\ Started("format", TRUE)
    /\ formatters' = Append(formatters, Formatter(args))
    /\ output' = Format(Formatter(args), parsed, args.currency)
    /\ pc' = "write"
    /\ UNCHANGED <<clientVars, args, xml_data, parsed, dest, stderr, exitCode, parserVars>>

\* with open(args.output, "w") as f: f.write(output), or print(output);
\* then return 0
MainWrite ==
    /\ AtWrite
    /\ \E io \in IoOutcomes(args.output) :
          /\ Started("write", io.ok)
          /\ IF io.ok
             THEN /\ dest' = Dest("complete",
                                  IF args.output = PyNone THEN output \o "\n" ELSE output)
                  /\ pc' = "returned"
                  /\ exitCode' = 0
                  /\ UNCHANGED stderr
             ELSE /\ dest' = Dest(io.left, "")
                  /\ MainRaises(io.exc)
    /\ UNCHANGED <<clientVars, args, xml_data, parsed, output, formatters, parserVars>>

Next == MainConstruct \/ MainFetch \/ MainParse \/ MainFormat \/ MainWrite

Spec == Init /\ [][Next]_vars

--------------------------------------------------------------------------
(* The parser's claims, checked under SpecParser *)

CurrentCalled    == call.fn = "parse_current_rates"
HistoricalCalled == call.fn = "parse_historical_rates"
IsDocument       == xml_in.form = "xml"

\* the positions of the children with a tag, and the i-th of them
TagAt(kids, tag) == {j \in 1..Len(kids) : kids[j].tag = tag}
Nth(kids, tag, i) ==
    kids[CHOOSE j \in TagAt(kids, tag) :
           Cardinality({m \in TagAt(kids, tag) : m <= j}) = i]

DayCount == Cardinality(TagAt(xml_in.root, "Day"))
FirstDay == Nth(xml_in.root, "Day", 1)
RateCount(day) == Cardinality(TagAt(day.kids, "Rate"))

\* a Rate element whose unit (when given) is an integer literal and whose
\* text is a decimal number, with a point or a comma
Convertible(e) ==
    /\ e.unit \in {PyNone, "1", "100", "0", "-1"}
    /\ e.text \in {"337.68", "388,37", "2,19", "2.50", "-1.5"}

\* the currency the i-th rate must carry: that of the i-th Rate element
ExpectedCurrency(day, i) == Nth(day.kids, "Rate", i).curr

\* A current-rates document: one Day element with a date, all of whose Rate
\* elements are convertible.
CurrentRatesDocument ==
    /\ IsDocument
    /\ DayCount = 1
    /\ FirstDay.date \notin {PyNone, ""}
    /\ \A j \in TagAt(FirstDay.kids, "Rate") : Convertible(FirstDay.kids[j])

\* C1: on a current-rates document with N Rate elements under its one Day
\* element, parse_current_rates returns an ExchangeRates with the Day's
\* date and exactly N rates, the i-th made from the i-th Rate element, each
\* with the container's date.
Thm_C1 ==
    (CurrentCalled /\ CurrentRatesDocument) =>
        /\ call.result.ok
        /\ call.result.value.date = FirstDay.date
        /\ Len(call.result.value.rates) = RateCount(FirstDay)
        /\ \A i \in 1..RateCount(FirstDay) :
              /\ call.result.value.rates[i].currency = ExpectedCurrency(FirstDay, i)
              /\ call.result.value.rates[i].date = call.result.value.date

\* Two Rate elements of different currencies, and an element that is no
\* Rate between or around them, have been parsed.
Wit_C1 ==
    /\ CurrentCalled
    /\ CurrentRatesDocument
    /\ RateCount(FirstDay) = 2
    /\ Len(FirstDay.kids) = 3
    /\ call.result.ok
    /\ call.result.value.rates[1].currency = "EUR"
    /\ call.result.value.rates[2].currency = "USD"

\* C2 (as claimed): a document without a Day element fails with
\* MissingDataError "No exchange rate data found in response", one whose
\* Day has no date or an empty one with MissingDataError "Date not found in
\* response".
CE_C2 ==
    (CurrentCalled /\ IsDocument) =>
        /\ DayCount = 0 =>
              /\ ~call.result.ok
              /\ call.result.exc.kind = "MissingDataError"
              /\ call.result.exc.msg = "No exchange rate data found in response"
        /\ (DayCount > 0 /\ FirstDay.date \in {PyNone, ""}) =>
              /\ ~call.result.ok
              /\ call.result.exc.kind = "MissingDataError"
              /\ call.result.exc.msg = "Date not found in response"

\* C3 (as claimed): both parsers fail with InvalidXmlError, and with no
\* other kind, on every input that is not well-formed XML.
CE_C3 ==
    (call.fn # "none" /\ ~IsDocument) =>
        /\ ~call.result.ok
        /\ call.result.exc.kind = "InvalidXmlError"

\* a Rate element with a conversion failure: a unit that is no integer, a
\* text that is no number or is absent, or no curr attribute
FailsConversion(e) ==
    \/ e.unit \in {"x", ""}
    \/ e.text \in {PyNone, "abc", "1,234,5"}
    \/ e.curr = PyNone

\* C4 (as claimed): when a Rate element under the Day fails conversion,
\* parse_current_rates fails with DataParseError and returns nothing.
CE_C4 ==
    (/\ CurrentCalled
     /\ IsDocument
     /\ DayCount > 0
     /\ FirstDay.date \notin {PyNone, ""}
     /\ \E j \in TagAt(FirstDay.kids, "Rate") : FailsConversion(FirstDay.kids[j]))
    => (~call.result.ok /\ call.result.exc.kind = "DataParseError")

\* The Day elements of the root each have a date and exactly one Rate
\* element, which has text.
HistoricalDocument ==
    /\ IsDocument
    /\ \A j \in TagAt(xml_in.root, "Day") :
          /\ xml_in.root[j].date \notin {PyNone, ""}
          /\ RateCount(xml_in.root[j]) = 1
          /\ Nth(xml_in.root[j].kids, "Rate", 1).text # PyNone

DatesDistinct ==
    \A i, j \in TagAt(xml_in.root, "Day") :
        i # j => xml_in.root[i].date # xml_in.root[j].date

\* the mapping has one item per Day element, in document order, with the
\* Day's date and the text of its Rate unchanged
OneItemPerDay ==
    /\ call.result.ok
    /\ Len(call.result.value) = DayCount
    /\ \A i \in 1..DayCount :
          /\ call.result.value[i].key = Nth(xml_in.root, "Day", i).date
          /\ call.result.value[i].value =
                Nth(Nth(xml_in.root, "Day", i).kids, "Rate", 1).text

\* C5 (as claimed): M Day elements, each with a date and exactly one Rate
\* with text, give a mapping of size M in document order with the texts
\* unchanged.
CE_C5 == (HistoricalCalled /\ HistoricalDocument) => OneItemPerDay

\* C5 (amended): the same, for Day elements whose dates are pairwise
\* different.
Thm_C5 == (HistoricalCalled /\ HistoricalDocument /\ DatesDistinct) => OneItemPerDay

\* Two Day elements, the later date first, the first rate with a comma.
Wit_C5 ==
    /\ HistoricalCalled
    /\ HistoricalDocument
    /\ DatesDistinct
    /\ DayCount = 2
    /\ call.result.ok
    /\ call.result.value[1] = [key |-> "2025-11-04", value |-> "388,37"]
    /\ call.result.value[2] = [key |-> "2025-11-03", value |-> "337.68"]

\* a Day with a non-empty date whose first Rate element has text
Contributes(day) ==
    /\ day.date \notin {PyNone, ""}
    /\ RateCount(day) > 0
    /\ Nth(day.kids, "Rate", 1).text # PyNone

\* C6 (as claimed): a Day element has an entry in the mapping exactly if
\* its date is non-empty and its first Rate has text, no Day raises an
\* error, and every value of the mapping is a rate text.
CE_C6 ==
    (HistoricalCalled /\ IsDocument) =>
        /\ call.result.ok
        /\ \A j \in TagAt(xml_in.root, "Day") :
              Contributes(xml_in.root[j]) <=>
                  \E i \in 1..Len(call.result.value) :
                      call.result.value[i].key = xml_in.root[j].date
        /\ \A i \in 1..Len(call.result.value) : call.result.value[i].value # PyNone

\* rate >= 0 for a float
NonNegative(x) == ~x.neg

\* C12 (as claimed): every ExchangeRate of a result parse_current_rates
\* returns for a document has unit >= 1 and rate >= 0, whatever the unit
\* attribute and the rate text of the document are.
CE_C12 ==
    (CurrentCalled /\ IsDocument /\ call.result.ok) =>
        \A i \in 1..Len(call.result.value.rates) :
            /\ call.result.value.rates[i].unit >= 1
            /\ NonNegative(call.result.value.rates[i].rate)

--------------------------------------------------------------------------
(* The claims about main(), checked under Spec *)

Pipeline == <<"construct", "fetch", "parse", "format", "write">>

\* the steps main has started are the first steps of the pipeline, in
\* order, and every step before the last one started has succeeded
InOrder ==
    /\ Len(steps) <= Len(Pipeline)
    /\ \A i \in 1..Len(steps) : steps[i].step = Pipeline[i]
    /\ \A i \in 1..(Len(steps) - 1) : steps[i].ok

HasFailed == \E i \in 1..Len(steps) : ~steps[i].ok
FailedAt(step) == \E i \in 1..Len(steps) : steps[i].step = step /\ ~steps[i].ok
AllSucceeded == Len(steps) = Len(Pipeline) /\ \A i \in 1..Len(steps) : steps[i].ok

\* the destination has received something only by a write that main
\* started after all of construct, fetch, parse and format succeeded
WrittenOnlyByWrite ==
    dest.state # "untouched" => (Len(steps) = Len(Pipeline) /\ InOrder)

\* C7: in every run the steps start in the order construct, fetch, parse,
\* format, write, each only after the one before it succeeded (so format
\* only after a successful parse), the destination is written by the write
\* step alone, and from the moment a step has raised an error the
\* destination does not change.
Thm_C7 ==
    /\ [](InOrder /\ WrittenOnlyByWrite)
    /\ [][HasFailed => dest' = dest]_vars

\* A run whose parse raised: three steps started, nothing formatted,
\* nothing written, the error reported.
Wit_C7 ==
    /\ pc = "returned"
    /\ Len(steps) = 3
    /\ FailedAt("parse")
    /\ output = ""
    /\ dest = Dest("untouched", "")
    /\ Len(stderr) = 1

\* C8: main always returns, never letting an exception out; it returns 0
\* exactly when all five steps succeeded, and when a step raised it
\* returns 1, having printed one message to standard error.
Thm_C8 ==
    /\ pc # "uncaught"
    /\ HasFailed => pc = "returned"
    /\ pc = "returned" =>
          /\ exitCode \in {0, 1}
          /\ exitCode = 0 <=> AllSucceeded
          /\ exitCode = 0 => stderr = <<>> /\ dest.state = "complete"
          /\ HasFailed => (exitCode = 1 /\ Len(stderr) = 1)

\* The write to the --output file raised an OSError: main returned 1 with
\* the "Unexpected error" message.
Wit_C8 ==
    /\ pc = "returned"
    /\ args.output = "rates.out"
    /\ FailedAt("write")
    /\ exitCode = 1
    /\ stderr = <<"Unexpected error: No space left on device">>

--------------------------------------------------------------------------
(* The claims about MNBClient, checked under SpecClient *)

IsFetch(c) == c.fn \in {"get_current_exchange_rates", "get_exchange_rates"}
FetchCalls == SelectSeq(calls, IsFetch)
RemoteOp(fn) ==
    IF fn = "get_current_exchange_rates" THEN "GetCurrentExchangeRates"
    ELSE "GetExchangeRates"

\* C9: the remote operations invoked are, one for one and in order, the
\* fetch calls made: each call invokes its operation once, with the
\* arguments it was given; a reply is returned as it came and a failure is
\* raised as an MNBClientError, with no second request.
Thm_C9 ==
    /\ Len(requests) = Len(FetchCalls)
    /\ \A i \in 1..Len(FetchCalls) :
          /\ i <= Len(requests)
          /\ requests[i].op = RemoteOp(FetchCalls[i].fn)
          /\ requests[i].args = FetchCalls[i].args
          /\ FetchCalls[i].answer.ok =>
                (FetchCalls[i].result.ok /\
                 FetchCalls[i].result.value = FetchCalls[i].answer.value)
          /\ ~FetchCalls[i].answer.ok =>
                (~FetchCalls[i].result.ok /\
                 FetchCalls[i].result.exc.cls = "MNBClientError")

\* A fetch that failed with a SOAP fault, then a range fetch with
\* arguments in no documented format: two requests, the second with those
\* arguments.
Wit_C9 ==
    /\ Len(calls) = 3
    /\ calls[2].fn = "get_current_exchange_rates"
    /\ calls[2].result.exc.kind = "ServiceError"
    /\ calls[3].fn = "get_exchange_rates"
    /\ Len(requests) = 2
    /\ requests[2] = Request("GetExchangeRates", <<"04/11/2025", "", "usd">>)

IsInit(c) == c.fn = "MNBClient"

\* C10: a construction in which zeep's Client raised has raised
\* MNBClientError (the ClientInitError) and bound no client; zeep's Client
\* was tried once per construction; the caller holds a client only from a
\* construction that succeeded, and fetches only after one.
Thm_C10 ==
    /\ \A i \in 1..Len(calls) :
          (IsInit(calls[i]) /\ ~calls[i].answer.ok) =>
              /\ ~calls[i].result.ok
              /\ calls[i].result.exc.cls = "MNBClientError"
              /\ calls[i].result.exc.kind = "ClientInitError"
    /\ Len(zeepInits) = Len(SelectSeq(calls, IsInit))
    /\ client # Unbound =>
          /\ client[1]._client = "zeep.Client"
          /\ \E i \in 1..Len(calls) :
                IsInit(calls[i]) /\ calls[i].answer.ok /\ calls[i].result.ok
    /\ \A j \in 1..Len(calls) :
          IsFetch(calls[j]) =>
              \E i \in 1..(j - 1) : IsInit(calls[i]) /\ calls[i].result.ok

\* A construction failed on a transport error: no client, one attempt,
\* nothing requested.
Wit_C10 ==
    /\ Len(calls) = 1
    /\ IsInit(calls[1])
    /\ calls[1].answer.exc.cls = "TransportError"
    /\ calls[1].result.exc.msg =
          "Failed to connect to MNB service: Server returned HTTP status 503"
    /\ client = Unbound
    /\ Len(zeepInits) = 1
    /\ requests = <<>>

--------------------------------------------------------------------------
(* The formatter's claims, checked under SpecFormatter *)

TableCalled == call.fn = "format_table"

\* the line the table shows for a rate of FormatterRatePool:
\* currency, str(unit) and str(rate) between tabs
TableLine(r) ==
    CASE r.currency = "USD"  -> "USD\t1\t337.68"
      [] r.currency = "EUR"  -> "EUR\t1\t388.37"
      [] r.currency = "JPY"  -> "JPY\t100\t1.0"
      [] r.currency = "CZK"  -> "CZK\t0\t-1.5"
      [] r.currency = "HUF"  -> "HUF\t-1\t2.5"
      [] r.currency = PyNone -> "None\t100\t2.19"

\* the two heading lines and the lines of the first n rates, a newline
\* between every two lines and none at the end: n + 2 lines
RECURSIVE TableOfFirst(_, _)
TableOfFirst(er, n) ==
    IF n = 0
    THEN "Date: " \o er.date \o "\n" \o "Currency\tUnit\tRate"
    ELSE TableOfFirst(er, n - 1) \o "\n" \o TableLine(er.rates[n])

\* C11: format_table of an ExchangeRates with N rates returns N + 2 lines
\* joined by newlines with none at the end: "Date: <date>", then
\* "Currency<TAB>Unit<TAB>Rate", then "<currency><TAB><unit><TAB><rate>" for
\* each rate in the order of the rates; the ExchangeRates is left as it was.
Thm_C11 ==
    /\ [](TableCalled =>
            /\ call.result.ok
            /\ call.result.value = TableOfFirst(parsed, Len(parsed.rates)))
    /\ [][parsed' = parsed]_vars

Wit_C11 ==
    /\ TableCalled
    /\ Len(parsed.rates) = 3
    /\ parsed.rates[1].currency = "CZK"
    /\ parsed.rates[2].currency = "USD"
    /\ parsed.rates[3].currency = "JPY"
    /\ call.result.value =
         "Date: 2025-11-03\nCurrency\tUnit\tRate\nCZK\t0\t-1.5\nUSD\t1\t337.68\nJPY\t100\t1.0"

--------------------------------------------------------------------------
(* The claim about main's choice of formatter, checked under Spec *)

\* the formatter the claim names for a mode and a --format value
ClaimedFormatter(historical, format) ==
    CASE historical /\ format = "json"   -> "format_historical_json"
      [] historical /\ format = "table"  -> "format_historical_table"
      [] historical /\ format = "csv"    -> "format_historical_table"
      [] ~historical /\ format = "json"  -> "format_json"
      [] ~historical /\ format = "csv"   -> "format_csv"
      [] ~historical /\ format = "table" -> "format_table"

\* the text of a formatter, by name, on what main parsed
ClaimedText(name) ==
    CASE name = "format_historical_json"  -> format_historical_json(parsed, args.currency)
      [] name = "format_historical_table" -> format_historical_table(parsed)
      [] name = "format_json"             -> format_json(parsed)
      [] name = "format_csv"              -> format_csv(parsed)
      [] name = "format_table"            -> format_table(parsed)

\* "<date>: <rate-text>" for the first n items of a mapping, one per line
RECURSIVE DateRateLines(_, _)
DateRateLines(rates, n) ==
    IF n = 0 THEN ""
    ELSE IF n = 1 THEN rates[1].key \o ": " \o rates[1].value
    ELSE DateRateLines(rates, n - 1) \o "\n" \o rates[n].key \o ": " \o rates[n].value

Succeeded == pc = "returned" /\ exitCode = 0

\* C13: main calls at most one formatter, and exactly one in a run that
\* succeeds; it is the one the mode and --format select: in historical mode
\* format_historical_json for json and format_historical_table for table
\* and for csv, whose output is then the "<date>: <rate-text>" lines and no
\* CSV; in current mode format_json, format_csv and format_table for json,
\* csv and table.  The output is that formatter's text.
Thm_C13 ==
    /\ Len(formatters) <= 1
    /\ Succeeded => Len(formatters) = 1
    /\ Len(formatters) = 1 =>
          /\ formatters[1] = ClaimedFormatter(args.historical, args.format)
          /\ output = ClaimedText(formatters[1])
          /\ (args.historical /\ args.format = "csv") =>
                output = DateRateLines(parsed, Len(parsed))

Wit_C13 ==
    /\ Succeeded
    /\ args.historical
    /\ args.format = "csv"
    /\ formatters = <<"format_historical_table">>
    /\ output = "2025-11-04: 337.68"

==========================================================================
